---- MODULE Spec2Model ----
(***************************************************************************)
(* config-store: a key-value store of entries (id, name, value, alternate) *)
(* kept in one SQLite table `data`.                                        *)
(*                                                                         *)
(* Two programs live in the repository and both are modelled:              *)
(*   - src/src/commands.rs: the command functions (`*_cmd`) called on one  *)
(*     open connection, as the test module of that file calls them.        *)
(*     Specification: Spec.                                                *)
(*   - src/src/main.rs: the self-contained binary whose `main` creates the *)
(*     table and dispatches exactly one command per process.               *)
(*     Specification: SpecMain.                                            *)
(*                                                                         *)
(* A string is a sequence of one-character strings, so that formatting    *)
(* (format!, Debug escaping, decimal rendering) is computed and not       *)
(* assumed.                                                                *)
(***************************************************************************)
EXTENDS Integers, Sequences, FiniteSets, TLC

VARIABLES
    db,     \* the database: [has_table, rows], rows a function rowid -> row
    last,   \* the last call: its operation, arguments and result
    pre,    \* the database as it was before the last call
    again,  \* TRUE when the call before the last was the same operation on the same name
    procs   \* the processes that run a command on the same file at the same time

vars == <<db, last, pre, again, procs>>

---------------------------------------------------------------------------
(* Bounds of the model *)

\* INSERT is not taken once it would assign a rowid above MaxId.
MaxId == 3

\* The names and the strings the callers pass.
Names == { <<"a">>, <<"b">> }

ArgVals == { <<"o", "n">>, <<"o", "f", "f">> }

---------------------------------------------------------------------------
(* Strings *)

OkStr == <<"O", "k">>

TrueStr == <<"t", "r", "u", "e">>

FalseStr == <<"f", "a", "l", "s", "e">>

EmptyStr == <<>>

\* bool::to_string
bool_to_string(b) == IF b THEN TrueStr ELSE FalseStr

DigitChars == <<"0", "1", "2", "3", "4", "5", "6", "7", "8", "9">>

\* Display of a non-negative integer: its decimal digits.
RECURSIVE Decimal(_)
Decimal(n) ==
    IF n < 10 THEN << DigitChars[n + 1] >>
    ELSE Decimal(n \div 10) \o << DigitChars[(n % 10) + 1] >>

\* Debug of one character of a str: quote, backslash and newline are escaped.
escape_debug(c) ==
    IF c = "\"" THEN << "\\", "\"" >>
    ELSE IF c = "\\" THEN << "\\", "\\" >>
    ELSE IF c = "\n" THEN << "\\", "n" >>
    ELSE << c >>

\* Debug of a str: the escaped characters between double quotes.
RECURSIVE EscapeAll(_)
EscapeAll(s) ==
    IF s = <<>> THEN <<>> ELSE escape_debug(Head(s)) \o EscapeAll(Tail(s))

DebugStr(s) == << "\"" >> \o EscapeAll(s) \o << "\"" >>

---------------------------------------------------------------------------
(* Entry (entry.rs) *)

Entry(id, name, value, alternate) ==
    [_id |-> id, name |-> name, value |-> value, alternate |-> alternate]

NoRow == Entry(0, EmptyStr, EmptyStr, EmptyStr)

\* json with the id written as a bare number.
json_bare_id(e) ==
    << "{", " ", "\"", "_", "i", "d", "\"", ":", " " >> \o Decimal(e._id)
    \o << ",", " ", "\"", "n", "a", "m", "e", "\"", ":", " ", "\"" >> \o e.name
    \o << "\"", ",", " ", "\"", "v", "a", "l", "u", "e", "\"", ":", " ", "\"" >> \o e.value
    \o << "\"", ",", " ", "\"", "a", "l", "t", "e", "r", "n", "a", "t", "e", "\"", ":", " ", "\"" >>
    \o e.alternate
    \o << "\"", " ", "}" >>

\* { "_id": "<id>", "name": "<name>", "value": "<value>", "alternate": "<alternate>" }
json(e) ==
    << "{", " ", "\"", "_", "i", "d", "\"", ":", " ", "\"" >> \o Decimal(e._id)
    \o << "\"", ",", " ", "\"", "n", "a", "m", "e", "\"", ":", " ", "\"" >> \o e.name
    \o << "\"", ",", " ", "\"", "v", "a", "l", "u", "e", "\"", ":", " ", "\"" >> \o e.value
    \o << "\"", ",", " ", "\"", "a", "l", "t", "e", "r", "n", "a", "t", "e", "\"", ":", " ", "\"" >>
    \o e.alternate
    \o << "\"", " ", "}" >>

\* #[derive(Debug)]: Entry { _id: 1, name: "n", value: "v", alternate: "a" }
DebugEntry(e) ==
    << "E", "n", "t", "r", "y", " ", "{", " ", "_", "i", "d", ":", " " >> \o Decimal(e._id)
    \o << ",", " ", "n", "a", "m", "e", ":", " " >> \o DebugStr(e.name)
    \o << ",", " ", "v", "a", "l", "u", "e", ":", " " >> \o DebugStr(e.value)
    \o << ",", " ", "a", "l", "t", "e", "r", "n", "a", "t", "e", ":", " " >> \o DebugStr(e.alternate)
    \o << " ", "}" >>

\* impl Display for Entry: writes the Debug rendering.
to_string(e) == DebugEntry(e)

---------------------------------------------------------------------------
(* Option<String> *)

None == [some |-> FALSE, v |-> EmptyStr]

Some(v) == [some |-> TRUE, v |-> v]

OptVals == { None } \cup { Some(v) : v \in ArgVals }

unwrap_or(o, d) == IF o.some THEN o.v ELSE d

unwrap_or_default(o) == unwrap_or(o, EmptyStr)

---------------------------------------------------------------------------
(* Results *)

Ok(s) == [tag |-> "Ok", val |-> s]

Err(e) == [tag |-> e, val |-> EmptyStr]

\* From without its QueryReturnedNoRows arm.
From_wraps_all(error) == "RusqliteError"

\* impl From<rusqlite::Error> for Error
From(error) == IF error = "QueryReturnedNoRows" THEN "NoEntry" ELSE "RusqliteError"

---------------------------------------------------------------------------
(* The table `data` and the SQL statements the program runs on it *)

EmptyRows == [i \in {} |-> NoRow]

EmptyDb == [has_table |-> TRUE, rows |-> EmptyRows]

MinOf(S) == CHOOSE i \in S : \A j \in S : i <= j

MaxOf(S) == CHOOSE i \in S : \A j \in S : j <= i

\* The rowids of the rows WHERE name = ?
Matching(d, name) == { i \in DOMAIN d.rows : d.rows[i].name = name }

RowEntry(d, i) == Entry(i, d.rows[i].name, d.rows[i].value, d.rows[i].alternate)

\* CREATE TABLE after dropping whatever table was there.
sql_create_table_fresh(d) == [has_table |-> TRUE, rows |-> [i \in {} |-> NoRow]]

\* CREATE TABLE IF NOT EXISTS data (id INTEGER PRIMARY KEY, name, value, alternate)
sql_create_table(d) == IF d.has_table THEN d ELSE EmptyDb

\* INSERT INTO data (name, value, alternate): the rowid is one above the largest.
NextId(d) == IF DOMAIN d.rows = {} THEN 1 ELSE MaxOf(DOMAIN d.rows) + 1

sql_insert(d, name, value, alternate) ==
    [d EXCEPT !.rows =
        [i \in DOMAIN d.rows \cup { NextId(d) } |->
            IF i \in DOMAIN d.rows THEN d.rows[i]
            ELSE [name |-> name, value |-> value, alternate |-> alternate]]]

\* REPLACE instead of UPDATE: the rows of that name are deleted and one is inserted.
sql_update_replace(d, value, alternate, name) ==
    LET kept == (DOMAIN d.rows) \ { i \in DOMAIN d.rows : d.rows[i].name = name }
        fresh == IF DOMAIN d.rows = {} THEN 1
                 ELSE (CHOOSE i \in DOMAIN d.rows : \A j \in DOMAIN d.rows : j <= i) + 1
    IN  [d EXCEPT !.rows =
            [i \in kept \cup { fresh } |->
                IF i \in kept THEN d.rows[i]
                ELSE [name |-> name, value |-> value, alternate |-> alternate]]]

\* UPDATE without its WHERE clause: every row is overwritten.
sql_update_all(d, value, alternate, name) ==
    [d EXCEPT !.rows =
        [i \in DOMAIN d.rows |->
            [name |-> d.rows[i].name, value |-> value, alternate |-> alternate]]]

\* UPDATE data SET value = ?, alternate = ? WHERE name = ?
sql_update(d, value, alternate, name) ==
    [d EXCEPT !.rows =
        [i \in DOMAIN d.rows |->
            IF d.rows[i].name = name
            THEN [name |-> name, value |-> value, alternate |-> alternate]
            ELSE d.rows[i]]]

\* DELETE with the comparison inverted: WHERE name != ?
sql_delete_others(d, name) ==
    [d EXCEPT !.rows = [i \in Matching(d, name) |-> d.rows[i]]]

\* DELETE FROM data WHERE name = ?
sql_delete(d, name) ==
    [d EXCEPT !.rows = [i \in (DOMAIN d.rows) \ Matching(d, name) |-> d.rows[i]]]

\* DROP TABLE data
sql_drop_table(d) == [has_table |-> FALSE, rows |-> EmptyRows]

\* The rows of SELECT * FROM data, in rowid order.
RECURSIVE ScanFrom(_, _)
ScanFrom(d, S) ==
    IF S = {} THEN <<>>
    ELSE << RowEntry(d, MinOf(S)) >> \o ScanFrom(d, S \ { MinOf(S) })

sql_select_all(d) == ScanFrom(d, DOMAIN d.rows)

---------------------------------------------------------------------------
(* commands.rs *)

\* select: query_row gives the first match, QueryReturnedNoRows when there is none.
select(d, name) ==
    IF ~d.has_table THEN [tag |-> From("SqliteFailure"), entry |-> NoRow]
    ELSE IF Matching(d, name) = {} THEN [tag |-> From("QueryReturnedNoRows"), entry |-> NoRow]
    ELSE [tag |-> "Ok", entry |-> RowEntry(d, MinOf(Matching(d, name)))]

\* exists that never finds the row.
exists_never(d, name) ==
    [tag |-> IF d.has_table THEN "Ok" ELSE "RusqliteError", b |-> FALSE]

exists(d, name) ==
    IF ~d.has_table THEN [tag |-> From("SqliteFailure"), b |-> FALSE]
    ELSE [tag |-> "Ok", b |-> Matching(d, name) # {}]

new(d, name, value, alternate) ==
    IF ~d.has_table THEN [db |-> d, ret |-> Err(From("SqliteFailure"))]
    ELSE [db |-> sql_insert(d, name, value, alternate), ret |-> Ok(OkStr)]

exists_cmd(d, name) ==
    LET r == exists(d, name) IN
    [db |-> d, ret |-> IF r.tag = "Ok" THEN Ok(bool_to_string(r.b)) ELSE Err(r.tag)]

delete_cmd(d, name) ==
    IF ~d.has_table THEN [db |-> d, ret |-> Err(From("SqliteFailure"))]
    ELSE [db |-> sql_delete(d, name), ret |-> Ok(OkStr)]

\* get_cmd with the two fields of the full rendering in the other order.
get_cmd_swapped(d, name, value_only, alternate_only, json_format) ==
    LET r == select(d, name)
        entry == r.entry
    IN  [db |-> d,
         ret |-> IF r.tag # "Ok" THEN Err(r.tag)
                 ELSE IF value_only THEN Ok(entry.value)
                 ELSE IF alternate_only THEN Ok(entry.alternate)
                 ELSE IF json_format THEN Ok(json(entry))
                 ELSE Ok(entry.alternate \o << " " >> \o entry.value)]

get_cmd(d, name, value_only, alternate_only, json_format) ==
    LET r == select(d, name)
        entry == r.entry
    IN  [db |-> d,
         ret |-> IF r.tag # "Ok" THEN Err(r.tag)
                 ELSE IF value_only THEN Ok(entry.value)
                 ELSE IF alternate_only THEN Ok(entry.alternate)
                 ELSE IF json_format THEN Ok(json(entry))
                 ELSE Ok(entry.value \o << " " >> \o entry.alternate)]

\* set_cmd that inserts before it reports the miss of a change_only call.
set_cmd_creates_on_miss(d, name, new_value, new_alternate, change_only) ==
    LET x == exists(d, name) IN
    IF x.tag # "Ok" THEN [db |-> d, ret |-> Err(x.tag)]
    ELSE IF x.b THEN
        LET entry == select(d, name).entry IN
        [db |-> sql_update(d, unwrap_or(new_value, entry.value),
                              unwrap_or(new_alternate, entry.alternate), name),
         ret |-> Ok(OkStr)]
    ELSE LET r == new(d, name, unwrap_or_default(new_value), unwrap_or_default(new_alternate))
         IN  IF change_only THEN [db |-> r.db, ret |-> Err("NoEntry")] ELSE r

\* set_cmd whose update resets a field that was not supplied.
set_cmd_resets(d, name, new_value, new_alternate, change_only) ==
    LET x == exists(d, name) IN
    IF x.tag # "Ok" THEN [db |-> d, ret |-> Err(x.tag)]
    ELSE IF x.b THEN
        [db |-> sql_update(d, unwrap_or_default(new_value),
                              unwrap_or_default(new_alternate), name),
         ret |-> Ok(OkStr)]
    ELSE IF ~change_only THEN
        new(d, name, unwrap_or_default(new_value), unwrap_or_default(new_alternate))
    ELSE [db |-> d, ret |-> Err("NoEntry")]

\* set_cmd that inserts without looking the name up first.
set_cmd_inserts(d, name, new_value, new_alternate, change_only) ==
    IF ~d.has_table THEN [db |-> d, ret |-> Err(From("SqliteFailure"))]
    ELSE IF ~change_only THEN
        new(d, name, unwrap_or_default(new_value), unwrap_or_default(new_alternate))
    ELSE IF Matching(d, name) = {} THEN [db |-> d, ret |-> Err("NoEntry")]
    ELSE LET entry == RowEntry(d, MinOf(Matching(d, name))) IN
         [db |-> sql_update(d, unwrap_or(new_value, entry.value),
                               unwrap_or(new_alternate, entry.alternate), name),
          ret |-> Ok(OkStr)]

set_cmd(d, name, new_value, new_alternate, change_only) ==
    LET x == exists(d, name) IN
    IF x.tag # "Ok" THEN [db |-> d, ret |-> Err(x.tag)]
    ELSE IF x.b THEN
        LET r == select(d, name)
            entry == r.entry
        IN  IF r.tag # "Ok" THEN [db |-> d, ret |-> Err(r.tag)]
            ELSE [db |-> sql_update(d, unwrap_or(new_value, entry.value),
                                       unwrap_or(new_alternate, entry.alternate), name),
                  ret |-> Ok(OkStr)]
    ELSE IF ~change_only THEN
        new(d, name, unwrap_or_default(new_value), unwrap_or_default(new_alternate))
    ELSE [db |-> d, ret |-> Err("NoEntry")]

\* toggle_cmd that writes the alternate into both columns.
toggle_cmd_loses_value(d, name) ==
    LET r == select(d, name)
        entry == r.entry
    IN  IF r.tag # "Ok" THEN [db |-> d, ret |-> Err(r.tag)]
        ELSE [db |-> sql_update(d, entry.alternate, entry.alternate, entry.name),
              ret |-> Ok(entry.alternate)]

toggle_cmd(d, name) ==
    LET r == select(d, name)
        entry == r.entry
    IN  IF r.tag # "Ok" THEN [db |-> d, ret |-> Err(r.tag)]
        ELSE [db |-> sql_update(d, entry.alternate, entry.value, entry.name),
              ret |-> Ok(entry.alternate)]

\* The fold of list_cmd: one writeln! per row.
RECURSIVE Lines(_, _)
Lines(es, json_format) ==
    IF es = <<>> THEN EmptyStr
    ELSE (IF json_format THEN json(Head(es)) ELSE to_string(Head(es)))
         \o << "\n" >> \o Lines(Tail(es), json_format)

list_cmd(d, json_format) ==
    IF ~d.has_table THEN [db |-> d, ret |-> Err(From("SqliteFailure"))]
    ELSE [db |-> d, ret |-> Ok(Lines(sql_select_all(d), json_format))]

drop_cmd(d) ==
    IF ~d.has_table THEN [db |-> d, ret |-> Err(From("SqliteFailure"))]
    ELSE [db |-> sql_drop_table(d), ret |-> Ok(OkStr)]

---------------------------------------------------------------------------
(* main.rs: the same statements, with its own results *)

main_select(d, name) ==
    IF ~d.has_table THEN [tag |-> "SqliteFailure", entry |-> NoRow]
    ELSE IF Matching(d, name) = {} THEN [tag |-> "QueryReturnedNoRows", entry |-> NoRow]
    ELSE [tag |-> "Ok", entry |-> RowEntry(d, MinOf(Matching(d, name)))]

main_exists(d, name) ==
    IF ~d.has_table THEN [tag |-> "SqliteFailure", b |-> FALSE]
    ELSE [tag |-> "Ok", b |-> Matching(d, name) # {}]

main_new(d, name, value, alternate) ==
    IF ~d.has_table THEN [db |-> d, ret |-> Err("SqliteFailure")]
    ELSE [db |-> sql_insert(d, name, value, alternate), ret |-> Ok(OkStr)]

main_exists_cmd(d, name) ==
    LET r == main_exists(d, name) IN
    [db |-> d, ret |-> IF r.tag = "Ok" THEN Ok(bool_to_string(r.b)) ELSE Err(r.tag)]

main_delete_cmd(d, name) ==
    IF ~d.has_table THEN [db |-> d, ret |-> Err("SqliteFailure")]
    ELSE [db |-> sql_delete(d, name), ret |-> Ok(OkStr)]

\* get_cmd of main.rs returns the name of the row it found.
main_get_cmd(d, name) ==
    LET r == main_select(d, name) IN
    [db |-> d, ret |-> IF r.tag # "Ok" THEN Err(r.tag) ELSE Ok(r.entry.name)]

\* set_cmd of main.rs: on a miss with change_only it calls exit(1) itself.
main_set_cmd(d, name, new_value, new_alternate, change_only) ==
    LET x == main_exists(d, name) IN
    IF x.tag # "Ok" THEN [db |-> d, ret |-> Err(x.tag)]
    ELSE IF x.b THEN
        LET r == main_select(d, name)
            value == r.entry
        IN  IF r.tag # "Ok" THEN [db |-> d, ret |-> Err(r.tag)]
            ELSE [db |-> sql_update(d, unwrap_or(new_value, value.value),
                                       unwrap_or(new_alternate, value.alternate), name),
                  ret |-> Ok(OkStr)]
    ELSE IF ~change_only THEN
        main_new(d, name, unwrap_or_default(new_value), unwrap_or_default(new_alternate))
    ELSE [db |-> d, ret |-> Err("exit")]

\* toggle_cmd of main.rs returns value.value, the value it read.
main_toggle_cmd(d, name) ==
    LET r == main_select(d, name)
        value == r.entry
    IN  IF r.tag # "Ok" THEN [db |-> d, ret |-> Err(r.tag)]
        ELSE [db |-> sql_update(d, value.alternate, value.value, value.name),
              ret |-> Ok(value.value)]

RECURSIVE main_Lines(_)
main_Lines(es) ==
    IF es = <<>> THEN EmptyStr
    ELSE DebugEntry(Head(es)) \o << "\n" >> \o main_Lines(Tail(es))

main_list_cmd(d) ==
    IF ~d.has_table THEN [db |-> d, ret |-> Err("SqliteFailure")]
    ELSE [db |-> d, ret |-> Ok(main_Lines(sql_select_all(d)))]

---------------------------------------------------------------------------
(* The calls *)

Call(op, name) ==
    [op |-> op, name |-> name, new_value |-> None, new_alternate |-> None,
     change_only |-> FALSE, value_only |-> FALSE, alternate_only |-> FALSE,
     json |-> FALSE, ret |-> Ok(EmptyStr)]

SetCall(name, new_value, new_alternate, change_only) ==
    [Call("set", name) EXCEPT !.new_value = new_value,
                              !.new_alternate = new_alternate,
                              !.change_only = change_only]

\* The database stays within the bound on rowids.
Fits(d) == \A i \in DOMAIN d.rows : i <= MaxId

\* The call c follows a call of the same operation on the same name.
Repeats(c) == last.op = c.op /\ last.name = c.name

\* Two processes of the tool on one database file.
Procs == { 1, 2 }

\* A process and the command it runs: where it stands (pc), the entry its
\* select read, and what it returned.
Proc(op, name, new_value, new_alternate, change_only, pc) ==
    [op |-> op, name |-> name, new_value |-> new_value, new_alternate |-> new_alternate,
     change_only |-> change_only, pc |-> pc, entry |-> NoRow, ret |-> Ok(EmptyStr)]

Idle == Proc("none", EmptyStr, None, None, FALSE, "idle")

Init ==
    /\ db = EmptyDb
    /\ pre = EmptyDb
    /\ last = Call("create_db", EmptyStr)
    /\ again = FALSE
    /\ procs = [p \in Procs |-> Idle]

\* The connection is set up again: CREATE TABLE IF NOT EXISTS.
create_db ==
    LET c == Call("create_db", EmptyStr) IN
    /\ db' = sql_create_table(db)
    /\ pre' = db
    /\ last' = c
    /\ again' = Repeats(c)
    /\ procs' = procs

Check(name) ==
    LET c == Call("exists", name)
        r == exists_cmd(db, name)
    IN  /\ db' = r.db
        /\ pre' = db
        /\ last' = [c EXCEPT !.ret = r.ret]
        /\ again' = Repeats(c)
        /\ procs' = procs

Delete(name) ==
    LET c == Call("delete", name)
        r == delete_cmd(db, name)
    IN  /\ db' = r.db
        /\ pre' = db
        /\ last' = [c EXCEPT !.ret = r.ret]
        /\ again' = Repeats(c)
        /\ procs' = procs

Get(name, value_only, alternate_only, json_format) ==
    LET c == [Call("get", name) EXCEPT !.value_only = value_only,
                                       !.alternate_only = alternate_only,
                                       !.json = json_format]
        r == get_cmd(db, name, value_only, alternate_only, json_format)
    IN  /\ db' = r.db
        /\ pre' = db
        /\ last' = [c EXCEPT !.ret = r.ret]
        /\ again' = Repeats(c)
        /\ procs' = procs

Set(name, new_value, new_alternate, change_only) ==
    LET c == SetCall(name, new_value, new_alternate, change_only)
        r == set_cmd(db, name, new_value, new_alternate, change_only)
    IN  /\ Fits(r.db)
        /\ db' = r.db
        /\ pre' = db
        /\ last' = [c EXCEPT !.ret = r.ret]
        /\ again' = Repeats(c)
        /\ procs' = procs

Toggle(name) ==
    LET c == Call("toggle", name)
        r == toggle_cmd(db, name)
    IN  /\ db' = r.db
        /\ pre' = db
        /\ last' = [c EXCEPT !.ret = r.ret]
        /\ again' = Repeats(c)
        /\ procs' = procs

List(json_format) ==
    LET c == [Call("list", EmptyStr) EXCEPT !.json = json_format]
        r == list_cmd(db, json_format)
    IN  /\ db' = r.db
        /\ pre' = db
        /\ last' = [c EXCEPT !.ret = r.ret]
        /\ again' = Repeats(c)
        /\ procs' = procs

Drop ==
    LET c == Call("drop", EmptyStr)
        r == drop_cmd(db)
    IN  /\ db' = r.db
        /\ pre' = db
        /\ last' = [c EXCEPT !.ret = r.ret]
        /\ again' = Repeats(c)
        /\ procs' = procs

Next ==
    \/ create_db
    \/ \E name \in Names : Check(name)
    \/ \E name \in Names : Delete(name)
    \/ \E name \in Names : \E vo \in BOOLEAN : \E ao \in BOOLEAN : \E jf \in BOOLEAN :
        Get(name, vo, ao, jf)
    \/ \E name \in Names : \E nv \in OptVals : \E na \in OptVals : \E co \in BOOLEAN :
        Set(name, nv, na, co)
    \/ \E name \in Names : Toggle(name)
    \/ \E jf \in BOOLEAN : List(jf)
    \/ Drop

Spec == Init /\ [][Next]_vars

---------------------------------------------------------------------------
(* The same commands on strings that hold a newline or a double quote *)

TextVals == { <<"v">>, <<"\n">>, <<"\"">> }

TextAlternates == { None, Some(<<"w">>) }

NextText ==
    \/ \E name \in Names : \E v \in TextVals : \E na \in TextAlternates :
        Set(name, Some(v), na, FALSE)
    \/ \E name \in Names : Delete(name)
    \/ \E name \in Names : Get(name, FALSE, FALSE, TRUE)
    \/ \E jf \in BOOLEAN : List(jf)

SpecText == Init /\ [][NextText]_vars

---------------------------------------------------------------------------
(* main.rs: every process creates the table if it is missing, then runs the *)
(* one command of its arguments                                             *)

main_Check(name) ==
    LET c == Call("exists", name)
        r == main_exists_cmd(sql_create_table(db), name)
    IN  /\ db' = r.db
        /\ pre' = db
        /\ last' = [c EXCEPT !.ret = r.ret]
        /\ again' = Repeats(c)
        /\ procs' = procs

main_Delete(name) ==
    LET c == Call("delete", name)
        r == main_delete_cmd(sql_create_table(db), name)
    IN  /\ db' = r.db
        /\ pre' = db
        /\ last' = [c EXCEPT !.ret = r.ret]
        /\ again' = Repeats(c)
        /\ procs' = procs

main_Get(name, value_only, alternate_only) ==
    LET c == [Call("get", name) EXCEPT !.value_only = value_only,
                                       !.alternate_only = alternate_only]
        r == main_get_cmd(sql_create_table(db), name)
    IN  /\ db' = r.db
        /\ pre' = db
        /\ last' = [c EXCEPT !.ret = r.ret]
        /\ again' = Repeats(c)
        /\ procs' = procs

main_Set(name, new_value, new_alternate, change_only) ==
    LET c == SetCall(name, new_value, new_alternate, change_only)
        r == main_set_cmd(sql_create_table(db), name, new_value, new_alternate, change_only)
    IN  /\ Fits(r.db)
        /\ db' = r.db
        /\ pre' = db
        /\ last' = [c EXCEPT !.ret = r.ret]
        /\ again' = Repeats(c)
        /\ procs' = procs

main_Toggle(name) ==
    LET c == Call("toggle", name)
        r == main_toggle_cmd(sql_create_table(db), name)
    IN  /\ db' = r.db
        /\ pre' = db
        /\ last' = [c EXCEPT !.ret = r.ret]
        /\ again' = Repeats(c)
        /\ procs' = procs

main_List ==
    LET c == Call("list", EmptyStr)
        r == main_list_cmd(sql_create_table(db))
    IN  /\ db' = r.db
        /\ pre' = db
        /\ last' = [c EXCEPT !.ret = r.ret]
        /\ again' = Repeats(c)
        /\ procs' = procs

NextMain ==
    \/ \E name \in Names : main_Check(name)
    \/ \E name \in Names : main_Delete(name)
    \/ \E name \in Names : \E vo \in BOOLEAN : \E ao \in BOOLEAN : main_Get(name, vo, ao)
    \/ \E name \in Names : \E nv \in OptVals : \E na \in OptVals : \E co \in BOOLEAN :
        main_Set(name, nv, na, co)
    \/ \E name \in Names : main_Toggle(name)
    \/ main_List

SpecMain == Init /\ [][NextMain]_vars

---------------------------------------------------------------------------
(* Two processes on one file: each SQL statement is atomic (autocommit, no
   transaction is opened), the statements of the two commands interleave *)

ConcName == <<"a">>

StartCalls ==
    { Proc("set", ConcName, nv, na, co, "exists") :
        nv \in { Some(<<"o", "n">>), None }, na \in { None, Some(<<"o", "n">>) },
        co \in BOOLEAN }
    \cup { Proc("toggle", ConcName, None, None, FALSE, "select"),
           Proc("delete", ConcName, None, None, FALSE, "execute") }

\* The store before the two processes start: empty, or holding the entry.
StartStores == { EmptyDb, new(EmptyDb, ConcName, <<"o", "n">>, <<"o", "f", "f">>).db }

InitConc ==
    /\ db \in StartStores
    /\ pre = db
    /\ last = Call("create_db", EmptyStr)
    /\ again = FALSE
    /\ procs \in [Procs -> StartCalls]

Return(p, ret) == [procs EXCEPT ![p].pc = "done", ![p].ret = ret]

Goto(p, pc) == [procs EXCEPT ![p].pc = pc]

\* set_cmd: if exists(connection, &name)? ... else if !change_only ... else
set_cmd_exists(p) ==
    LET c == procs[p]
        x == exists(db, c.name)
    IN  /\ c.op = "set" /\ c.pc = "exists"
        /\ procs' = IF x.tag # "Ok" THEN Return(p, Err(x.tag))
                     ELSE IF x.b THEN Goto(p, "select")
                     ELSE IF ~c.change_only THEN Goto(p, "insert")
                     ELSE Return(p, Err("NoEntry"))
        /\ UNCHANGED <<db, pre, last, again>>

\* set_cmd: let entry = select(connection, &name)?;
set_cmd_select(p) ==
    LET c == procs[p]
        r == select(db, c.name)
    IN  /\ c.op = "set" /\ c.pc = "select"
        /\ procs' = IF r.tag # "Ok" THEN Return(p, Err(r.tag))
                     ELSE [procs EXCEPT ![p].pc = "update", ![p].entry = r.entry]
        /\ UNCHANGED <<db, pre, last, again>>

\* set_cmd: UPDATE data SET value = ?, alternate = ? WHERE name = ?
set_cmd_update(p) ==
    LET c == procs[p] IN
    /\ c.op = "set" /\ c.pc = "update"
    /\ db' = IF db.has_table
              THEN sql_update(db, unwrap_or(c.new_value, c.entry.value),
                                  unwrap_or(c.new_alternate, c.entry.alternate), c.name)
              ELSE db
    /\ procs' = Return(p, IF db.has_table THEN Ok(OkStr) ELSE Err(From("SqliteFailure")))
    /\ UNCHANGED <<pre, last, again>>

\* set_cmd: new(connection, name, unwrap_or_default, unwrap_or_default)
set_cmd_new(p) ==
    LET c == procs[p]
        r == new(db, c.name, unwrap_or_default(c.new_value), unwrap_or_default(c.new_alternate))
    IN  /\ c.op = "set" /\ c.pc = "insert"
        /\ db' = r.db
        /\ procs' = Return(p, r.ret)
        /\ UNCHANGED <<pre, last, again>>

\* toggle_cmd: let entry = select(connection, &name)?;
toggle_cmd_select(p) ==
    LET c == procs[p]
        r == select(db, c.name)
    IN  /\ c.op = "toggle" /\ c.pc = "select"
        /\ procs' = IF r.tag # "Ok" THEN Return(p, Err(r.tag))
                     ELSE [procs EXCEPT ![p].pc = "update", ![p].entry = r.entry]
        /\ UNCHANGED <<db, pre, last, again>>

\* toggle_cmd: UPDATE with (entry.alternate, entry.value, entry.name), Ok(entry.alternate)
toggle_cmd_update(p) ==
    LET c == procs[p] IN
    /\ c.op = "toggle" /\ c.pc = "update"
    /\ db' = IF db.has_table
              THEN sql_update(db, c.entry.alternate, c.entry.value, c.entry.name)
              ELSE db
    /\ procs' = Return(p, IF db.has_table THEN Ok(c.entry.alternate)
                          ELSE Err(From("SqliteFailure")))
    /\ UNCHANGED <<pre, last, again>>

\* delete_cmd: its one statement
delete_cmd_execute(p) ==
    LET c == procs[p]
        r == delete_cmd(db, c.name)
    IN  /\ c.op = "delete" /\ c.pc = "execute"
        /\ db' = r.db
        /\ procs' = Return(p, r.ret)
        /\ UNCHANGED <<pre, last, again>>

NextConc ==
    \/ \E p \in Procs : set_cmd_exists(p)
    \/ \E p \in Procs : set_cmd_select(p)
    \/ \E p \in Procs : set_cmd_update(p)
    \/ \E p \in Procs : set_cmd_new(p)
    \/ \E p \in Procs : toggle_cmd_select(p)
    \/ \E p \in Procs : toggle_cmd_update(p)
    \/ \E p \in Procs : delete_cmd_execute(p)

SpecConc == InitConc /\ [][NextConc]_vars

---------------------------------------------------------------------------
(* Properties *)

\* The row a lookup of `name` finds in d (the first match).
Stored(d, name) == d.rows[MinOf(Matching(d, name))]

Present(d, name) == d.has_table /\ Matching(d, name) # {}

\* What a caller supplied, or the fallback.
Supplied(o, fallback) == IF o.some THEN o.v ELSE fallback

\* C1: toggle(name) on an existing entry with stored pair (v, a) leaves the
\* entry with value = a and alternate = v, and returns the new value a.
C1_ToggleReturnsNewValue ==
    (last.op = "toggle" /\ Present(pre, last.name)) =>
        /\ Present(db, last.name)
        /\ Stored(db, last.name).value = Stored(pre, last.name).alternate
        /\ Stored(db, last.name).alternate = Stored(pre, last.name).value
        /\ last.ret = Ok(Stored(pre, last.name).alternate)

\* C2: set(name, .., change_only = true) on a name with no entry returns
\* NoEntry to its caller, creates nothing, and the name still has no entry.
C2_ChangeOnlyMissReturnsNoEntry ==
    (last.op = "set" /\ last.change_only /\ pre.has_table /\ ~Present(pre, last.name)) =>
        /\ last.ret.tag = "NoEntry"
        /\ db = pre
        /\ ~Present(db, last.name)

\* C3: drop() returns "Ok", and a list (in either format) called next on the
\* same connection succeeds and returns the empty string.
C3_DropThenListEmpty ==
    [][ /\ (last'.op = "drop" => last'.ret = Ok(OkStr))
        /\ ((last.op = "drop" /\ last'.op = "list") => last'.ret = Ok(EmptyStr)) ]_vars

\* C4: on a store whose table exists, exists(name) answers "false" for a name
\* with no entry, and after a successful set(name, .., change_only = false)
\* the name has an entry and exists(name) answers "true".
C4_ExistsAfterSet ==
    /\ (last.op = "exists" /\ pre.has_table /\ ~Present(pre, last.name))
            => last.ret = Ok(FalseStr)
    /\ (last.op = "set" /\ ~last.change_only /\ last.ret.tag = "Ok")
            => /\ Present(db, last.name)
               /\ exists_cmd(db, last.name).ret = Ok(TrueStr)

C4_Witness ==
    /\ last.op = "set" /\ ~last.change_only /\ last.ret.tag = "Ok"
    /\ ~Present(pre, last.name)
    /\ exists_cmd(pre, last.name).ret = Ok(FalseStr)
    /\ exists_cmd(db, last.name).ret = Ok(TrueStr)

\* C5: after set(name, v, a, change_only = false) on a store whose table
\* exists, get(name) returns v, one space, a; with value_only it returns v and
\* with alternate_only it returns a.
C5_SetThenGet ==
    (last.op = "set" /\ ~last.change_only /\ pre.has_table
        /\ last.new_value.some /\ last.new_alternate.some) =>
        /\ last.ret = Ok(OkStr)
        /\ get_cmd(db, last.name, FALSE, FALSE, FALSE).ret
            = Ok(last.new_value.v \o << " " >> \o last.new_alternate.v)
        /\ get_cmd(db, last.name, TRUE, FALSE, FALSE).ret = Ok(last.new_value.v)
        /\ get_cmd(db, last.name, FALSE, TRUE, FALSE).ret = Ok(last.new_alternate.v)

C5_Witness ==
    /\ last.op = "set" /\ ~last.change_only /\ last.ret = Ok(OkStr)
    /\ last.new_value = Some(<<"o", "f", "f">>) /\ last.new_alternate = Some(<<"o", "n">>)
    /\ get_cmd(db, last.name, FALSE, FALSE, FALSE).ret = Ok(<<"o", "f", "f", " ", "o", "n">>)

\* C6: a toggle(name) that follows a successful toggle(name) puts the
\* database back to what it was before the first one and returns the value
\* the entry had then.
C6_ToggleTwice ==
    [][ (last.op = "toggle" /\ last.ret.tag = "Ok"
            /\ last'.op = "toggle" /\ last'.name = last.name) =>
        /\ db' = pre
        /\ last'.ret = Ok(Stored(pre, last.name).value) ]_vars

C6_Witness ==
    /\ last.op = "toggle" /\ again /\ last.ret.tag = "Ok"
    /\ Present(db, last.name)
    /\ Stored(db, last.name).value # Stored(db, last.name).alternate
    /\ last.ret = Ok(Stored(db, last.name).value)

\* C7: on a store whose table exists, set on a name that has an entry returns
\* "Ok", overwrites exactly the supplied fields of that entry and adds no row;
\* set with change_only = false on a name with no entry adds one row holding
\* the supplied strings, "" for each one not supplied.
C7_SetOverwritesSupplied ==
    (last.op = "set" /\ pre.has_table) =>
        /\ Present(pre, last.name) =>
            /\ last.ret = Ok(OkStr)
            /\ DOMAIN db.rows = DOMAIN pre.rows
            /\ Matching(db, last.name) = Matching(pre, last.name)
            /\ Stored(db, last.name).value
                = Supplied(last.new_value, Stored(pre, last.name).value)
            /\ Stored(db, last.name).alternate
                = Supplied(last.new_alternate, Stored(pre, last.name).alternate)
        /\ (~Present(pre, last.name) /\ ~last.change_only) =>
            /\ last.ret = Ok(OkStr)
            /\ Cardinality(DOMAIN db.rows) = Cardinality(DOMAIN pre.rows) + 1
            /\ Cardinality(Matching(db, last.name)) = 1
            /\ Stored(db, last.name).value = Supplied(last.new_value, EmptyStr)
            /\ Stored(db, last.name).alternate = Supplied(last.new_alternate, EmptyStr)

C7_Witness ==
    /\ last.op = "set" /\ Present(pre, last.name)
    /\ last.new_value.some /\ ~last.new_alternate.some
    /\ Stored(pre, last.name).value # last.new_value.v
    /\ Stored(pre, last.name).alternate # EmptyStr
    /\ Stored(db, last.name).alternate = Stored(pre, last.name).alternate
    /\ Stored(db, last.name).value = last.new_value.v

\* C8: on a store whose table exists, delete(name) returns "Ok" and afterwards
\* the name has no entry and exists(name) answers "false", whether or not it
\* had one; a delete(name) that follows a delete(name) changes nothing.
C8_DeleteIdempotent ==
    /\ (last.op = "delete" /\ pre.has_table) =>
        /\ last.ret = Ok(OkStr)
        /\ ~Present(db, last.name)
        /\ exists_cmd(db, last.name).ret = Ok(FalseStr)
    /\ (last.op = "delete" /\ again) => db = pre

C8_Witness ==
    /\ last.op = "delete" /\ again /\ last.ret = Ok(OkStr)
    /\ DOMAIN db.rows # {}
    /\ db = pre

\* C9: on a store whose table exists, NoEntry is the result exactly of get and
\* toggle on a name with no entry and of set with change_only on such a name;
\* exists, delete, list, drop and set without change_only never give NoEntry.
C9_NoEntryExactly ==
    /\ pre.has_table =>
        ((last.ret.tag = "NoEntry") <=>
            /\ ~Present(pre, last.name)
            /\ \/ last.op \in {"get", "toggle"}
               \/ (last.op = "set" /\ last.change_only))
    /\ (\/ last.op \in {"exists", "delete", "list", "drop"}
        \/ (last.op = "set" /\ ~last.change_only)) => last.ret.tag # "NoEntry"

C9_Witness ==
    /\ last.op = "get" /\ last.json /\ ~last.value_only /\ ~last.alternate_only
    /\ pre.has_table /\ DOMAIN pre.rows = {}
    /\ last.ret.tag = "NoEntry"

\* C10: at most one row has any given name, and looking the name up yields
\* that row.
C10_NameUnique ==
    \A name \in Names :
        /\ Cardinality(Matching(db, name)) <= 1
        /\ \A i \in Matching(db, name) :
            select(db, name) = [tag |-> "Ok", entry |-> RowEntry(db, i)]

C10_Witness ==
    /\ \A name \in Names : Cardinality(Matching(db, name)) = 1
    /\ last.op = "set" /\ Present(pre, last.name)

\* C11: an entry keeps its rowid for as long as it lives: no call changes the
\* rowid of a name that has a row before and after it, set on an existing
\* name and toggle leave the entry where it was, and the rows that list
\* reads all have different ids.
C11_IdStable ==
    /\ \A name \in Names :
        (Present(pre, name) /\ Present(db, name)) => Matching(db, name) = Matching(pre, name)
    /\ (last.op \in {"set", "toggle"} /\ Present(pre, last.name)) =>
        /\ Present(db, last.name)
        /\ select(db, last.name).entry._id = select(pre, last.name).entry._id
    /\ LET es == sql_select_all(db) IN
        \A i \in 1..Len(es) : \A j \in 1..Len(es) : i # j => es[i]._id # es[j]._id

C11_Witness ==
    /\ last.op = "toggle" /\ last.ret.tag = "Ok"
    /\ select(pre, last.name).entry._id = 3
    /\ select(db, last.name).entry._id = 3
    /\ Cardinality(DOMAIN db.rows) = 2
    /\ db # pre

\* C12: a name that has an entry before a call still has it after the call,
\* and exists answers "true", unless the call is delete of that name or drop.
C12_EntryLifetime ==
    \A name \in Names :
        (/\ Present(pre, name)
         /\ ~(last.op = "delete" /\ last.name = name)
         /\ last.op # "drop") =>
            /\ Present(db, name)
            /\ exists_cmd(db, name).ret = Ok(TrueStr)

C12_Witness ==
    \E name \in Names :
        /\ last.op = "delete" /\ last.name # name
        /\ Present(pre, last.name) /\ ~Present(db, last.name)
        /\ Present(pre, name) /\ Present(db, name)

\* The command function a call record stands for, applied to the database d.
Apply(d, c) ==
    CASE c.op = "exists" -> exists_cmd(d, c.name)
      [] c.op = "delete" -> delete_cmd(d, c.name)
      [] c.op = "get" -> get_cmd(d, c.name, c.value_only, c.alternate_only, c.json)
      [] c.op = "set" -> set_cmd(d, c.name, c.new_value, c.new_alternate, c.change_only)
      [] c.op = "toggle" -> toggle_cmd(d, c.name)
      [] c.op = "list" -> list_cmd(d, c.json)
      [] c.op = "drop" -> drop_cmd(d)
      [] OTHER -> [db |-> sql_create_table(d), ret |-> Ok(EmptyStr)]

\* C15: once drop has removed the table, every command called on that
\* connection returns what it would return on a freshly initialised empty
\* store (exists "false", set without change_only "Ok", delete "Ok", drop "Ok").
C15_DropTruncates ==
    (~pre.has_table /\ last.op # "create_db") => last.ret = Apply(EmptyDb, last).ret

\* C18: exists, get and list leave the database as it was, and so does every
\* call that returns NoEntry.
C18_ReadsAndFailuresChangeNothing ==
    /\ last.op \in {"exists", "get", "list"} => db = pre
    /\ last.ret.tag = "NoEntry" => db = pre

C18_Witness ==
    /\ last.op = "set" /\ last.change_only /\ last.new_value.some
    /\ last.ret.tag = "NoEntry"
    /\ DOMAIN db.rows # {}
    /\ db = pre

\* C19: set, toggle and delete of one name leave every other name as it was:
\* the same rowid, value and alternate, and the same answer of exists.
C19_OtherNamesUntouched ==
    last.op \in {"set", "toggle", "delete"} =>
        \A m \in Names \ { last.name } :
            /\ Matching(db, m) = Matching(pre, m)
            /\ \A i \in Matching(pre, m) : db.rows[i] = pre.rows[i]
            /\ exists_cmd(db, m).ret = exists_cmd(pre, m).ret

C19_Witness ==
    \E m \in Names \ { last.name } :
        /\ last.op = "toggle" /\ last.ret.tag = "Ok" /\ db # pre
        /\ Present(pre, m)
        /\ Stored(db, m).value # Stored(db, last.name).value
        /\ Stored(db, m).alternate # Stored(db, last.name).alternate
        /\ Stored(db, m) = Stored(pre, m)

\* How often the character c occurs in s.
RECURSIVE CountChar(_, _)
CountChar(s, c) ==
    IF s = <<>> THEN 0
    ELSE (IF Head(s) = c THEN 1 ELSE 0) + CountChar(Tail(s), c)

\* C13: list returns one newline-terminated line per row and nothing else:
\* as many lines as rows, the empty string for no rows, and for a store whose
\* only row has id 1 the rendering of that row followed by a newline.
C13_ListOneLinePerEntry ==
    (last.op = "list" /\ pre.has_table) =>
        /\ last.ret.tag = "Ok"
        /\ CountChar(last.ret.val, "\n") = Cardinality(DOMAIN pre.rows)
        /\ DOMAIN pre.rows = {} => last.ret.val = EmptyStr
        /\ last.ret.val # EmptyStr => last.ret.val[Len(last.ret.val)] = "\n"
        /\ (DOMAIN pre.rows = {1} /\ ~last.json) =>
            last.ret.val = DebugEntry(RowEntry(pre, 1)) \o << "\n" >>

\* The rendering the claim spells out, built from its parts.
Quoted(s) == << "\"" >> \o s \o << "\"" >>

Field(key, text) == Quoted(key) \o << ":", " " >> \o Quoted(text)

IdText(i) == << <<"1">>, <<"2">>, <<"3">>, <<"4">>, <<"5">>, <<"6">>, <<"7">>, <<"8">>, <<"9">> >>[i]

ExpectedJson(e) ==
    << "{", " " >> \o Field(<<"_", "i", "d">>, IdText(e._id))
    \o << ",", " " >> \o Field(<<"n", "a", "m", "e">>, e.name)
    \o << ",", " " >> \o Field(<<"v", "a", "l", "u", "e">>, e.value)
    \o << ",", " " >> \o Field(<<"a", "l", "t", "e", "r", "n", "a", "t", "e">>, e.alternate)
    \o << " ", "}" >>

RECURSIVE ExpectedJsonLines(_, _)
ExpectedJsonLines(d, ids) ==
    IF ids = {} THEN <<>>
    ELSE LET i == CHOOSE k \in ids : \A j \in ids : k <= j IN
         ExpectedJson(Entry(i, d.rows[i].name, d.rows[i].value, d.rows[i].alternate))
         \o << "\n" >> \o ExpectedJsonLines(d, ids \ { i })

\* { "_id": "1", "name": "a", "value": "v", "alternate": "w" } and a newline
ScenarioLine ==
    << "{", " ", "\"", "_", "i", "d", "\"", ":", " ", "\"", "1", "\"", ",", " ",
       "\"", "n", "a", "m", "e", "\"", ":", " ", "\"", "a", "\"", ",", " ",
       "\"", "v", "a", "l", "u", "e", "\"", ":", " ", "\"", "v", "\"", ",", " ",
       "\"", "a", "l", "t", "e", "r", "n", "a", "t", "e", "\"", ":", " ", "\"", "w", "\"",
       " ", "}", "\n" >>

ScenarioRows == [i \in {1} |-> [name |-> <<"a">>, value |-> <<"v">>, alternate |-> <<"w">>]]

\* C20: get in json mode returns, and list in json mode writes for each row,
\* { "_id": "<id>", "name": "<name>", "value": "<value>", "alternate": "<alternate>" }
\* with the id as a quoted decimal; for the single row (1, "a", "v", "w") list
\* in json mode returns that line and a newline.
C20_JsonRendering ==
    /\ (last.op = "get" /\ last.json /\ ~last.value_only /\ ~last.alternate_only
            /\ Present(pre, last.name)) =>
        last.ret = Ok(ExpectedJson(select(pre, last.name).entry))
    /\ (last.op = "list" /\ last.json /\ pre.has_table) =>
        last.ret = Ok(ExpectedJsonLines(pre, DOMAIN pre.rows))
    /\ (last.op = "list" /\ last.json /\ pre.has_table /\ pre.rows = ScenarioRows) =>
        last.ret = Ok(ScenarioLine)

C20_Witness ==
    /\ last.op = "list" /\ last.json
    /\ pre.has_table /\ pre.rows = ScenarioRows
    /\ last.ret = Ok(ScenarioLine)

\* Both processes have returned.
AllDone == \A p \in Procs : procs[p].pc = "done"

\* The store after the calls of p and then q, one after the other, on d.
Serial(d, p, q) == Apply(Apply(d, procs[p]).db, procs[q]).db

\* A process that runs alone takes the steps of the command function.
AloneIsAtomic ==
    \A p \in Procs : \A q \in Procs \ { p } :
        (procs[p].pc = "done" /\ procs[q].pc \in { "exists", "select", "execute" }
            /\ procs[q].entry = NoRow) =>
            /\ db = Apply(pre, procs[p]).db
            /\ procs[p].ret = Apply(pre, procs[p]).ret

\* C14: two set(name, .., change_only=false) of two processes on the same
\* absent name, their statements interleaved, leave a store that one of the
\* two serial orders produces, with exactly one entry of that name.
C14_ConcurrentSetSerialised ==
    (/\ AllDone
     /\ \A p \in Procs : procs[p].op = "set" /\ ~procs[p].change_only
     /\ ~Present(pre, ConcName)) =>
        /\ db \in { Serial(pre, 1, 2), Serial(pre, 2, 1) }
        /\ Cardinality(Matching(db, ConcName)) = 1

\* C16: two toggle(name) of two processes on the same existing entry leave
\* the entry with its original (value, alternate) pair, and one call returns
\* the old alternate, the other the old value.
C16_ConcurrentToggleSerialised ==
    (/\ AllDone
     /\ \A p \in Procs : procs[p].op = "toggle"
     /\ Present(pre, ConcName)) =>
        /\ Present(db, ConcName)
        /\ Stored(db, ConcName) = Stored(pre, ConcName)
        /\ procs[1].ret # procs[2].ret
        /\ { procs[1].ret, procs[2].ret }
            = { Ok(Stored(pre, ConcName).alternate), Ok(Stored(pre, ConcName).value) }

\* C17: set(name, .., change_only=false) never returns NoEntry, also with a
\* delete(name) of the other process between its statements: it returns "Ok".
C17_SetNeverNoEntry ==
    \A p \in Procs :
        (procs[p].op = "set" /\ ~procs[p].change_only /\ procs[p].pc = "done") =>
            /\ procs[p].ret.tag # "NoEntry"
            /\ procs[p].ret = Ok(OkStr)

====
